---- MODULE Spec2Model ----
(***************************************************************************)
(* Model of src/app.py: the analysis pipeline behind the "/" route         *)
(* (home), the report_data single-slot store and the "/download_report"    *)
(* route (download_report).                                                *)
(*                                                                         *)
(* Conventions.  A Python string is a sequence of one-character strings    *)
(* (URL markers such as "v=" are one element).  A value that may be None   *)
(* is a sequence of length 0 (None) or 1 (the value).  A Python dict is a  *)
(* function whose domain is the set of keys that are present; {} has the   *)
(* empty domain.                                                           *)
(***************************************************************************)
EXTENDS Integers, Sequences, FiniteSets, TLC

\* ------------------------------------------------------------------------
\* Bounds of the model
\* ------------------------------------------------------------------------
MaxPages == 2       \* longest comment feed the platform holds, in pages
BigPageLen == 21    \* number of items on the large page of the platform

\* ------------------------------------------------------------------------
\* Program constants
\* ------------------------------------------------------------------------
MAX_COMMENTS == 20
maxResults == 100
TRUNCATE == 256
TOP_K == 5
WC_WIDTH == 800
WC_HEIGHT == 400

None == <<>>
Some(v) == <<v>>
EmptyDict == [k \in {} |-> 0]

\* dict.get(key, default)
Get(d, key, default) == IF key \in DOMAIN d THEN d[key] ELSE default

Min(a, b) == IF a < b THEN a ELSE b

\* s[:n]
Prefix(s, n) == SubSeq(s, 1, Min(n, Len(s)))

\* ------------------------------------------------------------------------
\* str.split pieces used by extract_video_id
\* ------------------------------------------------------------------------
Contains(s, t) == \E i \in 1..Len(s) : s[i] = t

IndexOf(s, t) == IF Contains(s, t)
                 THEN CHOOSE i \in 1..Len(s) :
                        s[i] = t /\ \A j \in 1..(i - 1) : s[j] # t
                 ELSE 0

\* s.split(t)[0]
SplitFirst(s, t) == IF Contains(s, t) THEN SubSeq(s, 1, IndexOf(s, t) - 1) ELSE s

\* s.split(t)[1], for s that contains t
SplitSecond(s, t) == SplitFirst(SubSeq(s, IndexOf(s, t) + 1, Len(s)), t)

\* extract_video_id(link) for a link that is a string
extract_video_id(link) ==
    IF Contains(link, "v=")
    THEN Some(SplitFirst(SplitSecond(link, "v="), "&"))
    ELSE IF Contains(link, "youtu.be/")
    THEN Some(SplitFirst(SplitSecond(link, "youtu.be/"), "?"))
    ELSE IF Contains(link, "shorts/")
    THEN Some(SplitFirst(SplitSecond(link, "shorts/"), "?"))
    ELSE None

\* Python truthiness of an optional string: None and "" are falsy
Falsy(opt) == opt = None \/ opt[1] = <<>>

\* ------------------------------------------------------------------------
\* analyze_sentiment
\* ------------------------------------------------------------------------
Whitespace == {" "}

\* re.sub(r"<.*?>", "", s): drop every "<" up to the nearest following ">"
RECURSIVE StripTags(_)
StripTags(s) ==
    IF s = <<>> THEN <<>>
    ELSE IF Head(s) = "<" /\ Contains(Tail(s), ">")
    THEN StripTags(SubSeq(Tail(s), IndexOf(Tail(s), ">") + 1, Len(Tail(s))))
    ELSE <<Head(s)>> \o StripTags(Tail(s))

\* not s.strip()
IsBlank(s) == \A i \in 1..Len(s) : s[i] \in Whitespace

RawLabels == {"negative", "neutral", "positive", "LABEL_2"}

\* str.upper on the labels the model can return
Upper(label) == CASE label = "negative" -> "NEGATIVE"
                  [] label = "neutral"  -> "NEUTRAL"
                  [] label = "positive" -> "POSITIVE"
                  [] OTHER              -> label

\* "NEGATIVE" in label, "NEUTRAL" in label
HasNegative(label) == label \in {"NEGATIVE"}
HasNeutral(label) == label \in {"NEUTRAL"}

\* Does analyze_sentiment(comment) call the inference pipeline?
CallsInference(comment) == ~IsBlank(StripTags(comment))

\* analyze_sentiment(comment) with the loaded pipeline
analyze_sentiment(pipeline, comment) ==
    LET text == StripTags(comment) IN
    IF IsBlank(text) THEN "Neutral"
    ELSE LET label == Upper(pipeline[Prefix(text, TRUNCATE)]) IN
         IF HasNegative(label) THEN "Negative"
         ELSE IF HasNeutral(label) THEN "Neutral"
         ELSE "Positive"

\* ------------------------------------------------------------------------
\* The video platform (external): metadata responses and comment feeds
\* ------------------------------------------------------------------------
HttpError == [HttpError |-> TRUE]
IsHttpError(resp) == "HttpError" \in DOMAIN resp

VideoFull == [statistics |-> [viewCount |-> 100, likeCount |-> 7, commentCount |-> 3],
              snippet |-> [title |-> <<"R", "&", "B">>]]
\* a video whose like and comment counts are hidden
VideoHidden == [statistics |-> [viewCount |-> 50],
                snippet |-> [title |-> <<"<", "b", ">">>]]

\* what youtube.videos().list(...).execute() can produce
MetadataResponses == {HttpError, [items |-> <<>>],
                      [items |-> <<VideoFull>>], [items |-> <<VideoHidden>>]}

\* comment items: item["snippet"]["topLevelComment"]["snippet"]
PageEmpty == <<>>
PageSmall == << [textDisplay |-> <<"o", "k">>, likeCount |-> 10],
                [textDisplay |-> <<"<", "i", ">", "n", "o", "<", "/", "i", ">">>,
                 likeCount |-> 2],
                [textDisplay |-> <<>>] >>
BigText(i) == CASE i % 4 = 0 -> <<"o", "k">>
                [] i % 4 = 1 -> <<"n", "o">>
                [] i % 4 = 2 -> <<"<", "b", ">", "<", "/", "b", ">", " ">>
                [] OTHER     -> <<"o", "k", "<", "b", "r", ">">>
BigItem(i) == IF i % 5 = 0
              THEN [textDisplay |-> BigText(i)]
              ELSE [textDisplay |-> BigText(i), likeCount |-> i % 3]
PageBig == [i \in 1..BigPageLen |-> BigItem(i)]
Pages == {PageEmpty, PageSmall, PageBig}

\* a feed: the pages of one video's comment threads, in platform order
Feeds == UNION {[1..n -> Pages] : n \in 1..MaxPages}

\* texts the inference pipeline can be called with
PlatformTexts == UNION {{p[i].textDisplay : i \in 1..Len(p)} : p \in Pages}
InferTexts == {t \in {Prefix(StripTags(c), TRUNCATE) : c \in PlatformTexts} : ~IsBlank(t)}

\* the page a request with this pageToken asks for
PageIndex(token) == IF token = None THEN 1 ELSE token[1]

\* what youtube.commentThreads().list(..., pageToken=token).execute() returns
PageResponse(fd, token) ==
    LET k == PageIndex(token) IN
    IF k < Len(fd)
    THEN [items |-> Prefix(fd[k], maxResults), nextPageToken |-> Some(k + 1)]
    ELSE [items |-> Prefix(fd[k], maxResults)]

\* all comments of a feed, in page order
RECURSIVE Flatten(_)
Flatten(fd) == IF fd = <<>> THEN <<>>
               ELSE Prefix(Head(fd), maxResults) \o Flatten(Tail(fd))

\* (comment_text, like_count) built from one item
CommentOf(item) == <<item.textDisplay, Get(item, "likeCount", 0)>>

\* ------------------------------------------------------------------------
\* get_video_stats
\* ------------------------------------------------------------------------
get_video_stats(resp) ==
    IF IsHttpError(resp) THEN None
    ELSE IF resp.items = <<>> THEN None
    ELSE LET stats == resp.items[1].statistics
             snippet == resp.items[1].snippet
         IN Some([title |-> snippet.title,
                  views |-> Get(stats, "viewCount", 0),
                  likes |-> Get(stats, "likeCount", 0),
                  comments_count |-> Get(stats, "commentCount", 0)])

\* ------------------------------------------------------------------------
\* get_comments: one pass of the for loop over a page's items
\* ------------------------------------------------------------------------
\* variant: the cap test is off by one
CapReached_OffByOne(cs) == Len(cs) > MAX_COMMENTS
CapReached(cs) == Len(cs) >= MAX_COMMENTS

\* comments after the for loop over items: append, return at the cap
RECURSIVE AppendItems(_, _)
AppendItems(cs, items) ==
    IF items = <<>> THEN cs
    ELSE LET next == Append(cs, CommentOf(Head(items))) IN
         IF CapReached(next) THEN next ELSE AppendItems(next, Tail(items))

\* did the for loop return from inside the page?
ReturnedInPage(cs, items) == items # <<>> /\ CapReached(AppendItems(cs, items))

\* variant: the loop ends only when the token runs out
LoopOver_TokenOnly(cs, items, token) == token = None

\* is the while loop over after this page?
LoopOver(cs, items, token) == ReturnedInPage(cs, items) \/ token = None

\* variant: the handler returns what was gathered
OnHttpError_Gathered(cs) == cs

\* the value get_comments returns from "except HttpError"
OnHttpError(cs) == <<>>

\* ------------------------------------------------------------------------
\* home: the classification loop, top-liked selection, word cloud
\* ------------------------------------------------------------------------
Tally0 == [positive |-> 0, negative |-> 0, neutral |-> 0,
           positive_comments |-> <<>>, negative_comments |-> <<>>,
           neutral_comments |-> <<>>, all_text |-> <<>>]

\* variant: the Negative test is an "if" of its own, not an "elif"
TallyStep_NoElif(acc, sentiment, comment) ==
    LET t == [acc EXCEPT !.all_text = @ \o <<" ">> \o comment]
        u == IF sentiment = "Positive"
             THEN [t EXCEPT !.positive = @ + 1, !.positive_comments = Append(@, comment)]
             ELSE t
    IN IF sentiment = "Negative"
       THEN [u EXCEPT !.negative = @ + 1, !.negative_comments = Append(@, comment)]
       ELSE [u EXCEPT !.neutral = @ + 1, !.neutral_comments = Append(@, comment)]

\* one iteration of "for comment, like_count in comments_data"
TallyStep(acc, sentiment, comment) ==
    LET t == [acc EXCEPT !.all_text = @ \o <<" ">> \o comment] IN
    IF sentiment = "Positive"
    THEN [t EXCEPT !.positive = @ + 1, !.positive_comments = Append(@, comment)]
    ELSE IF sentiment = "Negative"
    THEN [t EXCEPT !.negative = @ + 1, !.negative_comments = Append(@, comment)]
    ELSE [t EXCEPT !.neutral = @ + 1, !.neutral_comments = Append(@, comment)]

RECURSIVE TallyLoop(_, _, _)
TallyLoop(pipeline, cs, acc) ==
    IF cs = <<>> THEN acc
    ELSE TallyLoop(pipeline, Tail(cs),
                   TallyStep(acc, analyze_sentiment(pipeline, Head(cs)[1]), Head(cs)[1]))

\* number of inference calls the loop makes
RECURSIVE InferenceCalls(_)
InferenceCalls(cs) ==
    IF cs = <<>> THEN 0
    ELSE (IF CallsInference(Head(cs)[1]) THEN 1 ELSE 0) + InferenceCalls(Tail(cs))

\* sorted(comments_data, key=lambda x: x[1], reverse=True): stable
RECURSIVE InsertByLikes(_, _)
InsertByLikes(sorted, c) ==
    IF sorted = <<>> THEN <<c>>
    ELSE IF Head(sorted)[2] >= c[2]
    THEN <<Head(sorted)>> \o InsertByLikes(Tail(sorted), c)
    ELSE <<c>> \o sorted

RECURSIVE SortedByLikes(_)
SortedByLikes(cs) ==
    IF cs = <<>> THEN <<>>
    ELSE InsertByLikes(SortedByLikes(SubSeq(cs, 1, Len(cs) - 1)), cs[Len(cs)])

top_liked(cs) == Prefix(SortedByLikes(cs), TOP_K)

\* the PNG bytes of WordCloud(...).generate(all_text)
WordCloudImage(all_text) ==
    [width |-> WC_WIDTH, height |-> WC_HEIGHT, background_color |-> "white",
     text |-> IF IsBlank(all_text) THEN <<"No comments available">> ELSE all_text]

\* variant: the new values are merged into the old dict, the image only set once
NewReportData_Merge(old, stats, t) ==
    [video_stats |-> stats, positive |-> t.positive, negative |-> t.negative,
     neutral |-> t.neutral,
     wordcloud_image |-> IF "wordcloud_image" \in DOMAIN old
                         THEN old.wordcloud_image
                         ELSE WordCloudImage(t.all_text)]

\* variant: the image is left out of the dict
NewReportData_NoImage(old, stats, t) ==
    [video_stats |-> stats, positive |-> t.positive, negative |-> t.negative,
     neutral |-> t.neutral]

\* the dict assigned to report_data (old is the dict it replaces)
NewReportData(old, stats, t) ==
    [video_stats |-> stats, positive |-> t.positive, negative |-> t.negative,
     neutral |-> t.neutral, wordcloud_image |-> WordCloudImage(t.all_text)]

\* variant: the early return is missing
StatsUnavailable_Never(stats) == stats = None /\ FALSE

\* "if not video_stats": the metadata lookup gave nothing
StatsUnavailable(stats) == stats = None

\* ------------------------------------------------------------------------
\* download_report: html.escape
\* ------------------------------------------------------------------------
EscapeChar(c) == CASE c = "&" -> <<"&amp;">>
                   [] c = "<" -> <<"&lt;">>
                   [] c = ">" -> <<"&gt;">>
                   [] c = "\"" -> <<"&quot;">>
                   [] c = "'" -> <<"&#x27;">>
                   [] OTHER -> <<c>>

RECURSIVE HtmlEscape(_)
HtmlEscape(s) == IF s = <<>> THEN <<>> ELSE EscapeChar(Head(s)) \o HtmlEscape(Tail(s))

\* ------------------------------------------------------------------------
\* State
\* ------------------------------------------------------------------------
VARIABLES
    sentiment_pipeline, \* the loaded inference pipeline: text -> raw label
    report_data,        \* the global report slot
    home_pc,            \* position of the thread serving "/"
    link,               \* request.form.get("link")
    video_id,           \* extract_video_id(link)
    video_stats,        \* get_video_stats(video_id)
    feed,               \* the platform's comment pages of the video
    comments,           \* get_comments: the list being collected
    next_page_token,    \* get_comments: pageToken of the next request
    http_error,         \* get_comments: HttpError was raised and caught
    comments_data,      \* home: the value get_comments returned
    calls,              \* outbound calls of the current run
    response,           \* what home returned to the caller
    dl_pc,              \* position of the thread serving "/download_report"
    dl_vs,              \* download_report: vs
    dl_elements,        \* download_report: content collected in elements
    dl_result,          \* what download_report returned to the caller
    slot_seen           \* values report_data held while download_report read it

homeVars == <<home_pc, link, video_id, video_stats, feed, comments,
              next_page_token, http_error, comments_data, calls, response>>
dlVars == <<dl_pc, dl_vs, dl_elements, dl_result>>
vars == <<sentiment_pipeline, report_data, homeVars, dlVars, slot_seen>>

NoCalls == [meta |-> 0, page |-> 0, infer |-> 0]

\* download_report still has reads of report_data ahead of it
DlReading == dl_pc \in {"stats", "positive", "negative", "neutral", "has_image", "image"}

Init ==
    /\ sentiment_pipeline \in [InferTexts -> RawLabels]
    /\ report_data = EmptyDict
    /\ home_pc = "idle"
    /\ link = None
    /\ video_id = None
    /\ video_stats = None
    /\ feed = <<>>
    /\ comments = <<>>
    /\ next_page_token = None
    /\ http_error = FALSE
    /\ comments_data = <<>>
    /\ calls = NoCalls
    /\ response = EmptyDict
    /\ dl_pc = "idle"
    /\ dl_vs = None
    /\ dl_elements = EmptyDict
    /\ dl_result = EmptyDict
    /\ slot_seen = {}

\* render_template("index.html", ...) at the end of home
RenderHome(t, stats, top, msg) ==
    [status |-> 200, error_message |-> msg,
     positive |-> t.positive, negative |-> t.negative, neutral |-> t.neutral,
     positive_comments |-> t.positive_comments,
     negative_comments |-> t.negative_comments,
     neutral_comments |-> t.neutral_comments,
     video_stats |-> stats, top_liked_comments |-> top]

\* render_template("index.html", error_message=...) of the early return
RenderError(msg) == [status |-> 200, error_message |-> msg]

\* the framework's answer to an exception that escapes the handler
Unhandled == [status |-> 500]

\* ------------------------------------------------------------------------
\* home
\* ------------------------------------------------------------------------
\* POST arrives: read the link, extract the video id
HomePost(lnk) ==
    /\ home_pc = "idle"
    /\ link' = lnk
    /\ calls' = NoCalls
    /\ IF lnk = None
       THEN \* "v=" in None raises TypeError
            /\ video_id' = None
            /\ response' = Unhandled
            /\ home_pc' = "done"
       ELSE /\ video_id' = extract_video_id(lnk[1])
            /\ IF Falsy(extract_video_id(lnk[1]))
               THEN /\ response' = RenderHome(Tally0, None, <<>>, "Invalid YouTube Link!")
                    /\ home_pc' = "done"
               ELSE /\ response' = EmptyDict
                    /\ home_pc' = "stats"
    /\ UNCHANGED <<sentiment_pipeline, report_data, video_stats, feed, comments,
                   next_page_token, http_error, comments_data, dlVars, slot_seen>>

\* get_video_stats(video_id); fd is the comment feed the platform holds for it
HomeStats(resp, fd) ==
    /\ home_pc = "stats"
    /\ calls' = [calls EXCEPT !.meta = @ + 1]
    /\ video_stats' = get_video_stats(resp)
    /\ IF StatsUnavailable(get_video_stats(resp))
       THEN /\ response' = RenderError("Unable to fetch video details.")
            /\ home_pc' = "done"
            /\ feed' = feed
       ELSE /\ response' = response
            /\ home_pc' = "comments"
            /\ feed' = fd
    /\ UNCHANGED <<sentiment_pipeline, report_data, link, video_id, comments,
                   next_page_token, http_error, comments_data, dlVars, slot_seen>>

\* get_comments: one iteration of the while loop (one page request)
HomePage(fault) ==
    /\ home_pc = "comments"
    /\ calls' = [calls EXCEPT !.page = @ + 1]
    /\ IF fault
       THEN /\ http_error' = TRUE
            /\ comments' = comments
            /\ next_page_token' = next_page_token
            /\ comments_data' = OnHttpError(comments)
            /\ home_pc' = "analyze"
       ELSE LET resp == PageResponse(feed, next_page_token)
                items == Get(resp, "items", <<>>)
                token == Get(resp, "nextPageToken", None)
            IN /\ http_error' = FALSE
               /\ comments' = AppendItems(comments, items)
               /\ IF LoopOver(comments, items, token)
                  THEN /\ next_page_token' =
                            IF ReturnedInPage(comments, items)
                            THEN next_page_token ELSE token
                       /\ comments_data' = AppendItems(comments, items)
                       /\ home_pc' = "analyze"
                  ELSE /\ next_page_token' = token
                       /\ comments_data' = comments_data
                       /\ home_pc' = "comments"
    /\ UNCHANGED <<sentiment_pipeline, report_data, link, video_id, video_stats,
                   feed, response, dlVars, slot_seen>>

\* classify, tally, select, render the word cloud, store the report, respond
HomeAnalyze ==
    /\ home_pc = "analyze"
    /\ IF comments_data # <<>>
       THEN LET t == TallyLoop(sentiment_pipeline, comments_data, Tally0)
                new == NewReportData(report_data, video_stats[1], t)
            IN /\ calls' = [calls EXCEPT !.infer = @ + InferenceCalls(comments_data)]
               /\ report_data' = new
               /\ slot_seen' = IF DlReading THEN slot_seen \cup {new} ELSE slot_seen
               /\ response' = RenderHome(t, video_stats, top_liked(comments_data), "")
       ELSE /\ calls' = calls
            /\ report_data' = report_data
            /\ slot_seen' = slot_seen
            /\ response' = RenderHome(Tally0, video_stats, <<>>, "")
    /\ home_pc' = "done"
    /\ UNCHANGED <<sentiment_pipeline, link, video_id, video_stats, feed, comments,
                   next_page_token, http_error, comments_data, dlVars>>

\* the response is sent; the handler's locals are gone
HomeReturn ==
    /\ home_pc = "done"
    /\ home_pc' = "idle"
    /\ link' = None
    /\ video_id' = None
    /\ video_stats' = None
    /\ feed' = <<>>
    /\ comments' = <<>>
    /\ next_page_token' = None
    /\ http_error' = FALSE
    /\ comments_data' = <<>>
    /\ calls' = NoCalls
    /\ response' = EmptyDict
    /\ UNCHANGED <<sentiment_pipeline, report_data, dlVars, slot_seen>>

\* ------------------------------------------------------------------------
\* download_report: every use of the global report_data is a separate load
\* ------------------------------------------------------------------------
NoReport == [status |-> 200, body |-> "No report available."]

\* "if not report_data"
DlCheck ==
    /\ dl_pc = "idle"
    /\ slot_seen' = {report_data}
    /\ IF DOMAIN report_data = {}
       THEN /\ dl_result' = NoReport
            /\ dl_pc' = "done"
       ELSE /\ dl_result' = dl_result
            /\ dl_pc' = "stats"
    /\ UNCHANGED <<sentiment_pipeline, report_data, homeVars, dl_vs, dl_elements>>

\* vs = report_data["video_stats"], then the metadata block
DlStats ==
    /\ dl_pc = "stats"
    /\ dl_vs' = Some(report_data.video_stats)
    /\ dl_elements' = [title |-> HtmlEscape(report_data.video_stats.title),
                       views |-> report_data.video_stats.views,
                       likes |-> report_data.video_stats.likes,
                       comments_count |-> report_data.video_stats.comments_count]
    /\ dl_pc' = "positive"
    /\ UNCHANGED <<sentiment_pipeline, report_data, homeVars, dl_result, slot_seen>>

\* one line of the sentiment summary: report_data[key]
DlCount(at, key, then) ==
    /\ dl_pc = at
    /\ dl_elements' = (key :> report_data[key]) @@ dl_elements
    /\ dl_pc' = then
    /\ UNCHANGED <<sentiment_pipeline, report_data, homeVars, dl_vs, dl_result, slot_seen>>

DlPositive == DlCount("positive", "positive", "negative")
DlNegative == DlCount("negative", "negative", "neutral")
DlNeutral == DlCount("neutral", "neutral", "has_image")

\* if "wordcloud_image" in report_data
DlHasImage ==
    /\ dl_pc = "has_image"
    /\ dl_pc' = IF "wordcloud_image" \in DOMAIN report_data THEN "image" ELSE "build"
    /\ UNCHANGED <<sentiment_pipeline, report_data, homeVars, dl_vs, dl_elements,
                   dl_result, slot_seen>>

\* BytesIO(report_data["wordcloud_image"])
DlImage ==
    /\ dl_pc = "image"
    /\ dl_elements' = ("wordcloud_image" :> report_data.wordcloud_image) @@ dl_elements
    /\ dl_pc' = "build"
    /\ UNCHANGED <<sentiment_pipeline, report_data, homeVars, dl_vs, dl_result, slot_seen>>

\* doc.build(elements); send_file(...)
DlBuild ==
    /\ dl_pc = "build"
    /\ dl_result' = [status |-> 200, mimetype |-> "application/pdf",
                     download_name |-> "YouTube_Analysis_Report.pdf",
                     elements |-> dl_elements]
    /\ dl_pc' = "done"
    /\ UNCHANGED <<sentiment_pipeline, report_data, homeVars, dl_vs, dl_elements, slot_seen>>

DlReturn ==
    /\ dl_pc = "done"
    /\ dl_pc' = "idle"
    /\ dl_vs' = None
    /\ dl_elements' = EmptyDict
    /\ dl_result' = EmptyDict
    /\ slot_seen' = {}
    /\ UNCHANGED <<sentiment_pipeline, report_data, homeVars>>

\* ------------------------------------------------------------------------
\* Specifications
\* ------------------------------------------------------------------------
\* links a caller posts; None is a form without a "link" field
Links == {None, Some(<<>>), Some(<<"a">>), Some(<<"v=">>),
          Some(<<"w", "v=", "a", "&", "t">>),
          Some(<<"youtu.be/", "a", "?", "t">>),
          Some(<<"shorts/", "a">>)}

HomeSteps(L, M, F) ==
    \/ \E lnk \in L : HomePost(lnk)
    \/ \E resp \in M, fd \in F : HomeStats(resp, fd)
    \/ \E fault \in BOOLEAN : HomePage(fault)
    \/ HomeAnalyze
    \/ HomeReturn

DlSteps ==
    \/ DlCheck
    \/ DlStats
    \/ DlPositive
    \/ DlNegative
    \/ DlNeutral
    \/ DlHasImage
    \/ DlImage
    \/ DlBuild
    \/ DlReturn

\* requests served one at a time
Next ==
    \/ (dl_pc = "idle" /\ HomeSteps(Links, MetadataResponses, Feeds))
    \/ (home_pc = "idle" /\ DlSteps)

Spec == Init /\ [][Next]_vars

\* one request of each route served at the same time, each on its own thread
ThreadedLinks == {Some(<<"shorts/", "a">>)}
ThreadedFeeds == {<<PageSmall>>, <<PageSmall, PageSmall>>}

NextThreaded ==
    \/ HomeSteps(ThreadedLinks, MetadataResponses, ThreadedFeeds)
    \/ DlSteps

SpecThreaded == Init /\ [][NextThreaded]_vars

\* ------------------------------------------------------------------------
\* Properties
\* ------------------------------------------------------------------------
\* every comment the platform holds for the feed, in page order
AllComments(fd) == [i \in 1..Len(Flatten(fd)) |-> CommentOf(Flatten(fd)[i])]

\* number of items on the first k pages
RECURSIVE ItemsUpTo(_, _)
ItemsUpTo(fd, k) == IF k = 0 THEN 0 ELSE Len(fd[k]) + ItemsUpTo(fd, k - 1)

\* fewest page requests that fill the cap or exhaust the feed
PagesNeeded(fd) ==
    IF \E k \in 1..Len(fd) : ItemsUpTo(fd, k) >= 20
    THEN CHOOSE k \in 1..Len(fd) :
           /\ ItemsUpTo(fd, k) >= 20
           /\ \A j \in 1..(k - 1) : ItemsUpTo(fd, j) < 20
    ELSE Len(fd)

\* get_comments has returned without a transport fault
CollectedClean == home_pc = "analyze" /\ ~http_error

Compile(a) ==
    [title |-> HtmlEscape(a.video_stats.title), views |-> a.video_stats.views,
     likes |-> a.video_stats.likes, comments_count |-> a.video_stats.comments_count,
     positive |-> a.positive, negative |-> a.negative, neutral |-> a.neutral,
     wordcloud_image |-> a.wordcloud_image]

\* " " + comment for every collected comment
RECURSIVE AllText(_)
AllText(cs) == IF cs = <<>> THEN <<>> ELSE <<" ">> \o Head(cs)[1] \o AllText(Tail(cs))

\* the run at hand has written the slot
RunWrote == home_pc = "done" /\ comments_data # <<>>

\* C2: the slot is single and the last writer wins: with requests served in
\* turn, a retrieval of an empty slot answers "No report available.", a
\* retrieval of a written slot is built from the slot's current dict, and after
\* a write that dict is the writing run's Analysis and nothing else.
C2_LastWriterWins ==
    /\ dl_pc = "done" =>
         IF DOMAIN report_data = {}
         THEN dl_result = NoReport
         ELSE /\ DOMAIN dl_result = {"status", "mimetype", "download_name", "elements"}
              /\ dl_result.elements = Compile(report_data)
    /\ RunWrote =>
         /\ DOMAIN report_data =
              {"video_stats", "positive", "negative", "neutral", "wordcloud_image"}
         /\ report_data.video_stats = response.video_stats[1]
         /\ report_data.positive = response.positive
         /\ report_data.negative = response.negative
         /\ report_data.neutral = response.neutral
         /\ report_data.wordcloud_image.text = AllText(comments_data)

\* a document was compiled from a written slot
C2_Witness ==
    /\ dl_pc = "done"
    /\ "elements" \in DOMAIN dl_result
    /\ dl_result.elements.title = <<"&lt;", "b", "&gt;">>
    /\ dl_result.elements.positive + dl_result.elements.negative
         + dl_result.elements.neutral = 20

\* the run ended without an error indicator
RunSucceeded ==
    /\ home_pc = "done"
    /\ response.status = 200
    /\ response.error_message = ""

\* C3: after a run that completes without an error indicator, a run with no
\* comments included, the slot holds the Analysis of that run.
C3_StoreHoldsEveryRun ==
    RunSucceeded =>
        /\ DOMAIN report_data # {}
        /\ report_data.video_stats = response.video_stats[1]
        /\ report_data.positive = response.positive
        /\ report_data.negative = response.negative
        /\ report_data.neutral = response.neutral

\* the dict in the slot is empty or a complete Analysis
StoreComplete ==
    \/ DOMAIN report_data = {}
    \/ /\ DOMAIN report_data =
            {"video_stats", "positive", "negative", "neutral", "wordcloud_image"}
       /\ DOMAIN report_data.video_stats = {"title", "views", "likes", "comments_count"}
       /\ report_data.positive \in Nat
       /\ report_data.negative \in Nat
       /\ report_data.neutral \in Nat
       /\ report_data.wordcloud_image.width = 800
       /\ report_data.wordcloud_image.height = 400

\* C4: the slot is always empty or a complete Analysis, and only the last step
\* of a run that collected comments changes it: a run that halts with
\* InvalidLink or MetadataUnavailable leaves it as it was.
C4_HaltLeavesStore ==
    /\ []StoreComplete
    /\ [][report_data' # report_data =>
            /\ home_pc = "analyze"
            /\ comments_data # <<>>
            /\ response'.error_message = ""]_vars

\* a run halted with MetadataUnavailable while the slot holds an Analysis
C4_Witness ==
    /\ home_pc = "done"
    /\ response = RenderError("Unable to fetch video details.")
    /\ DOMAIN report_data # {}

\* a page request has faulted in the run at hand
Faulted == http_error /\ home_pc \in {"analyze", "done"}

LinkInvalid ==
    \/ link = None
    \/ link[1] = <<>>
    \/ \A i \in 1..Len(link[1]) : link[1][i] \notin {"v=", "youtu.be/", "shorts/"}

\* C6: for a link that is absent, empty or without a marker the run ends with
\* the message "Invalid YouTube Link!".
C6_InvalidLinkSignalled ==
    (home_pc = "done" /\ LinkInvalid) =>
        /\ response.status = 200
        /\ response.error_message = "Invalid YouTube Link!"

\* C7: a document compiled while a run writes the slot is built from one
\* Analysis among those the slot held during the retrieval.
C7_ReportFromOneAnalysis ==
    (dl_pc = "done" /\ "elements" \in DOMAIN dl_result) =>
        \E a \in slot_seen : DOMAIN a # {} /\ dl_result.elements = Compile(a)

\* texts of the collected comments with this sentiment, in collection order
Bucket(label) ==
    LET texts == [i \in 1..Len(comments_data) |-> comments_data[i][1]]
        Test(c) == analyze_sentiment(sentiment_pipeline, c) = label
    IN SelectSeq(texts, Test)

\* C8: after aggregation the three counts sum to the number of collected
\* comments (at most 20), each bucket is the comments of its label in
\* collection order, and the counts in the slot have the same sum.
C8_CountsSumToCollected ==
    RunSucceeded =>
        /\ response.positive + response.negative + response.neutral = Len(comments_data)
        /\ Len(comments_data) <= 20
        /\ response.positive_comments = Bucket("Positive")
        /\ response.negative_comments = Bucket("Negative")
        /\ response.neutral_comments = Bucket("Neutral")
        /\ response.positive = Len(response.positive_comments)
        /\ response.negative = Len(response.negative_comments)
        /\ response.neutral = Len(response.neutral_comments)
        /\ comments_data # <<>> =>
             report_data.positive + report_data.negative + report_data.neutral
               = Len(comments_data)

\* twenty comments were aggregated into three non-empty buckets
C8_Witness ==
    /\ RunSucceeded
    /\ Len(comments_data) = 20
    /\ response.positive > 0
    /\ response.negative > 0
    /\ response.neutral > 0

\* C9: the stages run in order with early halt: without a video id no outbound
\* call is made; without video stats the run is over and no comment page and
\* no inference was requested; pages come after the metadata call and
\* inference after the pages.
C9_StagesInOrder ==
    /\ (home_pc # "idle" /\ (video_id = <<>> \/ video_id = << <<>> >>)) =>
         home_pc = "done" /\ calls = NoCalls
    /\ (calls.meta > 0 /\ video_stats = <<>>) =>
         home_pc = "done" /\ calls.page = 0 /\ calls.infer = 0
    /\ calls.meta <= 1
    /\ calls.page > 0 => calls.meta = 1
    /\ calls.infer > 0 => calls.page > 0

\* the metadata lookup failed and the run halted after that one call
C9_Witness ==
    /\ home_pc = "done"
    /\ video_stats = <<>>
    /\ calls = [meta |-> 1, page |-> 0, infer |-> 0]

\* C10: get_comments requests no page beyond the fewest that fill the cap or
\* exhaust the feed, and a fault-free collection requests exactly that many.
C10_NoPageBeyondNeed ==
    /\ feed # <<>> => calls.page <= PagesNeeded(feed)
    /\ CollectedClean => calls.page = PagesNeeded(feed)

\* the cap was filled on the first page and the second page was not requested
C10_Witness ==
    /\ CollectedClean
    /\ Len(feed) = 2
    /\ calls.page = 1
    /\ Len(comments_data) = 20
    /\ Len(feed[1]) > 20

====
